---- MODULE Spec2Model ----
(***************************************************************************)
(* lpar/gzipped: a static file handler that serves a precompressed sibling *)
(* (name.ext.br, name.ext.gz) of the requested file when the client        *)
(* accepts that encoding.                                                  *)
(*                                                                         *)
(* Two generations of the handler are in the source:                       *)
(*   "negotiate"  src/unnamed/part_000: probe Exists for br, gzip and      *)
(*                identity, negotiate the available list against the       *)
(*                client's Accept-Encoding, open the chosen file;          *)
(*   "rank"       src/fileserver.go: parse and rank Accept-Encoding        *)
(*                (acceptable), open the candidates in rank order.         *)
(* ServeHTTP and openAndStat are the same text in both.                    *)
(*                                                                         *)
(* Strings are sequences of tokens: a path is a sequence over "/", "."     *)
(* and "f"; the suffixes ".gz" and ".br" are one token each.  A parsed     *)
(* Accept-Encoding header is a sequence of [value, q] entries, q counted   *)
(* in units of 1/QSteps, the empty sequence being the absent header.       *)
(***************************************************************************)
EXTENDS Integers, Sequences, FiniteSets, TLC

VARIABLES
    design,     \* which handler was constructed: "negotiate" or "rank"
    fs,         \* the storage under the root: file name -> kind of entry
    fsChanges,  \* number of concurrent changes made to the storage so far
    baseStable, \* the requested base file has not been touched by a change
    tables,     \* the package-level encoding tables, shared by all requests
    rq          \* the requests in flight: id -> request record

vars == <<design, fs, fsChanges, baseStable, tables, rq>>

----------------------------------------------------------------------------
(* Bounds of the model *)

MaxPathLen == 3
MaxHeaderLen == 2
QSteps == 2
MaxFsChanges == 2

\* requests handled at the same time
NumRequests == 2

----------------------------------------------------------------------------
(* Strings, paths *)

Last(s) == s[Len(s)]

HasPrefixSlash(p) == Len(p) > 0 /\ p[1] = "/"

HasSuffixSlash(p) == Len(p) > 0 /\ Last(p) = "/"

\* the elements of p between slashes, empty ones included
RECURSIVE SplitFrom(_, _, _)
SplitFrom(p, i, cur) ==
    IF i > Len(p) THEN <<cur>>
    ELSE IF p[i] = "/" THEN <<cur>> \o SplitFrom(p, i + 1, <<>>)
    ELSE SplitFrom(p, i + 1, Append(cur, p[i]))

Split(p) == SplitFrom(p, 1, <<>>)

DotDot == <<".", ".">>

\* path.Clean's element rules: drop "" and ".", ".." removes the element
\* before it, is dropped at the root and kept at the start of a relative path
RECURSIVE CleanElems(_, _, _, _)
CleanElems(segs, i, out, rooted) ==
    IF i > Len(segs) THEN out
    ELSE LET s == segs[i] IN
         IF s = <<>> \/ s = <<".">> THEN CleanElems(segs, i + 1, out, rooted)
         ELSE IF s = DotDot
              THEN IF Len(out) > 0 /\ Last(out) # DotDot
                   THEN CleanElems(segs, i + 1, SubSeq(out, 1, Len(out) - 1), rooted)
                   ELSE IF rooted
                        THEN CleanElems(segs, i + 1, out, rooted)
                        ELSE CleanElems(segs, i + 1, Append(out, s), rooted)
              ELSE CleanElems(segs, i + 1, Append(out, s), rooted)

RECURSIVE Join(_)
Join(segs) ==
    IF segs = <<>> THEN <<>>
    ELSE IF Len(segs) = 1 THEN segs[1]
    ELSE segs[1] \o <<"/">> \o Join(Tail(segs))

\* path.Clean
Clean(p) ==
    LET rooted == HasPrefixSlash(p)
        out == CleanElems(Split(p), 1, <<>>, rooted)
    IN  IF rooted THEN <<"/">> \o Join(out)
        ELSE IF out = <<>> THEN <<".">> ELSE Join(out)

PathAlphabet == {"/", ".", "f"}

Paths == UNION {[1..n -> PathAlphabet] : n \in 0..MaxPathLen}

----------------------------------------------------------------------------
(* Storage *)

BaseFile == <<"/", "f">>

Files == {BaseFile, BaseFile \o <<".gz">>, BaseFile \o <<".br">>}

Kinds == {"missing", "file", "dir", "unreadable"}

\* what a name resolves to: the root is a directory, the names of Files are
\* what the storage says, every other name is absent
KindOf(fsys, name) ==
    IF name \in DOMAIN fsys THEN fsys[name]
    ELSE IF name = <<"/">> THEN "dir" ELSE "missing"

\* size reported by Stat for a regular file; the three files differ in size
SizeOf(name) == IF Last(name) = ".gz" THEN 47 ELSE IF Last(name) = ".br" THEN 31 ELSE 27

\* Dir.Exists / fs.Exists: Stat of the name succeeds
Exists(fsys, name) == KindOf(fsys, name) \in {"file", "dir", "unreadable"}

\* Dir.Open / fs.Open: a handle for a regular file or a directory
Open(fsys, name) == KindOf(fsys, name) \in {"file", "dir"}

\* a variant of openAndStat without the IsDir test
openAndStat_NoDirCheck(fsys, name) ==
    LET opened == Open(fsys, name)
    IN  [file |-> opened, ok |-> opened, size |-> IF opened THEN SizeOf(name) ELSE 0]

\* openAndStat: file is TRUE when a handle was returned (err nil or not),
\* ok is TRUE when err is nil
openAndStat(fsys, name) ==
    LET opened == Open(fsys, name)
        isDir == KindOf(fsys, name) = "dir"
    IN  [file |-> opened,
         ok |-> opened /\ ~isDir,
         size |-> IF opened /\ ~isDir THEN SizeOf(name) ELSE 0]

----------------------------------------------------------------------------
(* Encodings *)

\* the package-level variables as their declarations initialise them
InitialTables ==
    [supportedEncodings |->
        << [name |-> "gzip", extension |-> <<".gz">>, clientPreference |-> 0, serverPreference |-> 1],
           [name |-> "br", extension |-> <<".br">>, clientPreference |-> 0, serverPreference |-> 2] >>,
     preferredEncodings |-> <<"br", "gzip", "identity">>]

supportedEncodings == tables.supportedEncodings

preferredEncodings == tables.preferredEncodings

extensionForEncoding(encname) ==
    IF encname = "gzip" THEN <<".gz">>
    ELSE IF encname = "br" THEN <<".br">>
    ELSE <<>>

HeaderValues == {"gzip", "br", "*", "identity"}

Entries == [value : HeaderValues, q : 0..QSteps]

Headers == UNION {[1..n -> Entries] : n \in 0..MaxHeaderLen}

----------------------------------------------------------------------------
(* Parse-and-rank design: acceptable *)

\* a variant of Less that breaks ties by ascending server preference
Less_ServerAscending(a, b) ==
    IF a.clientPreference = b.clientPreference
    THEN a.serverPreference < b.serverPreference
    ELSE a.clientPreference > b.clientPreference

\* encodingByPreference.Less: descending client preference, then descending
\* server preference
Less(a, b) ==
    IF a.clientPreference = b.clientPreference
    THEN a.serverPreference > b.serverPreference
    ELSE a.clientPreference > b.clientPreference

\* sort.Sort under Less
RECURSIVE Insert(_, _)
Insert(e, sorted) ==
    IF sorted = <<>> THEN <<e>>
    ELSE IF Less(e, Head(sorted)) THEN <<e>> \o sorted
    ELSE <<Head(sorted)>> \o Insert(e, Tail(sorted))

RECURSIVE SortByPreference(_)
SortByPreference(list) ==
    IF list = <<>> THEN <<>>
    ELSE Insert(Head(list), SortByPreference(Tail(list)))

\* a variant of MatchKnown that does not test the weight against 0
RECURSIVE MatchKnown_NoZeroCheck(_, _)
MatchKnown_NoZeroCheck(aspec, k) ==
    IF k > Len(supportedEncodings) THEN <<>>
    ELSE IF aspec.value = supportedEncodings[k].name
         THEN << [supportedEncodings[k] EXCEPT !.clientPreference = aspec.q] >>
         ELSE MatchKnown_NoZeroCheck(aspec, k + 1)

\* the inner loop of the first pass: the supported encoding an entry names,
\* with the entry's weight, unless the weight is 0
RECURSIVE MatchKnown(_, _)
MatchKnown(aspec, k) ==
    IF k > Len(supportedEncodings) THEN <<>>
    ELSE IF aspec.value = supportedEncodings[k].name /\ aspec.q # 0
         THEN << [supportedEncodings[k] EXCEPT !.clientPreference = aspec.q] >>
         ELSE MatchKnown(aspec, k + 1)

\* a variant of AcceptScan that does not skip an entry already seen
RECURSIVE AcceptScan_NoDuplicateCheck(_, _, _, _, _)
AcceptScan_NoDuplicateCheck(ae, i, acc, starQuality, seen) ==
    IF i > Len(ae) THEN [acc |-> acc, starQuality |-> starQuality, seen |-> seen]
    ELSE LET aspec == ae[i] IN
         IF aspec.value = "*"
         THEN AcceptScan_NoDuplicateCheck(ae, i + 1, acc, aspec.q, seen \cup {aspec.value})
         ELSE AcceptScan_NoDuplicateCheck(ae, i + 1, acc \o MatchKnown(aspec, 1),
                                          starQuality, seen \cup {aspec.value})

\* the first pass over the parsed header: duplicates are skipped, "*" sets
\* starQuality, a supported encoding of weight # 0 is appended
RECURSIVE AcceptScan(_, _, _, _, _)
AcceptScan(ae, i, acc, starQuality, seen) ==
    IF i > Len(ae) THEN [acc |-> acc, starQuality |-> starQuality, seen |-> seen]
    ELSE LET aspec == ae[i] IN
         IF aspec.value \in seen
         THEN AcceptScan(ae, i + 1, acc, starQuality, seen)
         ELSE IF aspec.value = "*"
              THEN AcceptScan(ae, i + 1, acc, aspec.q, seen \cup {aspec.value})
              ELSE AcceptScan(ae, i + 1, acc \o MatchKnown(aspec, 1), starQuality,
                              seen \cup {aspec.value})

\* the second pass: every supported encoding not seen gets the weight of "*"
RECURSIVE StarFill(_, _, _)
StarFill(k, starQuality, seen) ==
    IF k > Len(supportedEncodings) THEN <<>>
    ELSE (IF supportedEncodings[k].name \in seen THEN <<>>
          ELSE << [supportedEncodings[k] EXCEPT !.clientPreference = starQuality] >>)
         \o StarFill(k + 1, starQuality, seen)

acceptable(ae) ==
    LET scan == AcceptScan(ae, 1, <<>>, -1, {})
        acceptEncodings ==
            IF scan.starQuality # -1
            THEN scan.acc \o StarFill(1, scan.starQuality, scan.seen)
            ELSE scan.acc
    IN  SortByPreference(acceptEncodings)

----------------------------------------------------------------------------
(* Negotiate design: negotiate (nego.NegotiateContentEncoding).  The       *)
(* library is not part of the repository; it is modelled as RFC 7231       *)
(* weighted negotiation: the weight of an offer is that of the entry       *)
(* naming it (the last one, the library keeps a map), else that of "*";    *)
(* the offer of greatest positive weight wins, the first offer on a tie.   *)

RECURSIVE LastQ(_, _, _)
LastQ(ae, value, i) ==
    IF i = 0 THEN -1
    ELSE IF ae[i].value = value THEN ae[i].q
    ELSE LastQ(ae, value, i - 1)

qvalue(ae, offer) ==
    IF LastQ(ae, offer, Len(ae)) # -1 THEN LastQ(ae, offer, Len(ae))
    ELSE LastQ(ae, "*", Len(ae))

RECURSIVE BestOffer(_, _, _, _, _)
BestOffer(ae, offers, i, best, bestQ) ==
    IF i > Len(offers) THEN best
    ELSE IF qvalue(ae, offers[i]) > bestQ
         THEN BestOffer(ae, offers, i + 1, offers[i], qvalue(ae, offers[i]))
         ELSE BestOffer(ae, offers, i + 1, best, bestQ)

negotiate(ae, available) == BestOffer(ae, available, 1, "", 0)

----------------------------------------------------------------------------
(* A request.  pc is the position of ServeHTTP:                            *)
(*   start     before ServeHTTP                                            *)
(*   probe     negotiate design, in the Exists loop, at index idx          *)
(*   openEnc   negotiate design, about to open the negotiated file         *)
(*   cand      rank design, about to open candidate idx                    *)
(*   openBase  about to open the base path, the last attempt               *)
(*   serve     a file was found, about to call http.ServeContent           *)
(*   serving   inside http.ServeContent                                    *)
(*   close     http.ServeContent returned, about to call file.Close        *)
(*   done      ServeHTTP has returned (or was unwound by a panic)          *)
(* handles is the list of handles Open returned to this request; file is   *)
(* the index in it of the one findBestFile returned, 0 for none; failed is *)
(* the set of names for which openAndStat returned an error.  status,      *)
(* ce, vary and clen are what the core wrote: status 0, ce "" and clen -1  *)
(* stand for not written.  urlPath is the URL path as it was received,     *)
(* upath is r.URL.Path, which ServeHTTP rewrites.                          *)

NewRequest(upath, ae, range) ==
    [urlPath |-> upath, upath |-> upath, ae |-> ae, range |-> range,
     pc |-> "start", fpath |-> <<>>, idx |-> 0,
     available |-> <<>>, cands |-> <<>>, negenc |-> "",
     handles |-> <<>>, failed |-> {}, file |-> 0, ops |-> <<>>,
     status |-> 0, ce |-> "", vary |-> FALSE, clen |-> -1,
     responder |-> "none", servedName |-> <<>>, servedFile |-> <<>>]

\* http.NotFound and return
NotFound(r) == [r EXCEPT !.status = 404, !.pc = "done"]

\* the handle list after openAndStat of name gave res
Opened(r, name, res) ==
    IF res.file THEN Append(r.handles, [name |-> name, open |-> TRUE]) ELSE r.handles

\* the names that failed to open after openAndStat of name gave res
Failed(r, name, res) == IF res.ok THEN r.failed ELSE r.failed \cup {name}

\* a variant of findBestFile that probes the siblings without looking at the
\* Accept-Encoding header first
findBestFile_NoHeaderCheck(d, r) ==
    IF d = "negotiate"
    THEN [r EXCEPT !.pc = "probe", !.idx = 1]
    ELSE LET c == acceptable(r.ae) IN
         IF c = <<>>
         THEN [r EXCEPT !.cands = c, !.pc = "openBase"]
         ELSE [r EXCEPT !.cands = c, !.pc = "cand", !.idx = 1]

\* the start of findBestFile, up to its first access to the storage
findBestFile(d, r) ==
    IF d = "negotiate"
    THEN IF r.ae = <<>>
         THEN [r EXCEPT !.pc = "openBase"]
         ELSE [r EXCEPT !.pc = "probe", !.idx = 1]
    ELSE LET c == acceptable(r.ae) IN
         IF c = <<>>
         THEN [r EXCEPT !.cands = c, !.pc = "openBase"]
         ELSE [r EXCEPT !.cands = c, !.pc = "cand", !.idx = 1]

\* a variant of ServeHTTP that does not add the leading slash
ServeHTTP_NoLeadingSlash(d, r) ==
    LET fpath == Clean(r.upath)
        r1 == [r EXCEPT !.fpath = fpath]
    IN  IF HasSuffixSlash(fpath) THEN NotFound(r1) ELSE findBestFile(d, r1)

\* ServeHTTP up to the call of findBestFile: add the leading slash, clean,
\* refuse a path that ends in a slash
ServeHTTP(d, r) ==
    LET upath == IF ~HasPrefixSlash(r.upath) THEN <<"/">> \o r.upath ELSE r.upath
        fpath == Clean(upath)
        r1 == [r EXCEPT !.upath = upath, !.fpath = fpath]
    IN  IF HasSuffixSlash(fpath) THEN NotFound(r1) ELSE findBestFile(d, r1)

\* negotiate design, after the Exists loop: nothing available or nothing
\* negotiated leads to the base path
AfterProbes(r) ==
    IF Len(r.available) = 0
    THEN [r EXCEPT !.pc = "openBase"]
    ELSE LET negenc == negotiate(r.ae, r.available) IN
         IF negenc = ""
         THEN [r EXCEPT !.pc = "openBase"]
         ELSE [r EXCEPT !.negenc = negenc, !.pc = "openEnc"]

\* negotiate design, one turn of the Exists loop
ProbeExists(r, fsys) ==
    LET posenc == preferredEncodings[r.idx]
        fname == r.fpath \o extensionForEncoding(posenc)
        r0 == [r EXCEPT !.ops = Append(@, [op |-> "Exists", name |-> fname])]
        r1 == IF Exists(fsys, fname)
              THEN [r0 EXCEPT !.available = Append(@, posenc)]
              ELSE r0
    IN  IF r.idx < Len(preferredEncodings)
        THEN [r1 EXCEPT !.idx = r.idx + 1]
        ELSE AfterProbes(r1)

\* a variant of OpenNegotiated that answers 404 when the negotiated file
\* does not open
OpenNegotiated_NoFallback(r, fsys) ==
    LET fname == r.fpath \o extensionForEncoding(r.negenc)
        res == openAndStat(fsys, fname)
        r0 == [r EXCEPT !.ops = Append(@, [op |-> "Open", name |-> fname])]
        h == Opened(r, fname, res)
    IN  IF res.ok
        THEN [r0 EXCEPT !.handles = h, !.file = Len(h),
                       !.ce = r.negenc, !.vary = TRUE,
                       !.clen = IF ~r.range THEN res.size ELSE -1,
                       !.pc = "serve"]
        ELSE NotFound([r0 EXCEPT !.handles = h, !.failed = Failed(r, fname, res)])

\* negotiate design, openAndStat of the negotiated file and the headers
OpenNegotiated(r, fsys) ==
    LET fname == r.fpath \o extensionForEncoding(r.negenc)
        res == openAndStat(fsys, fname)
        r0 == [r EXCEPT !.ops = Append(@, [op |-> "Open", name |-> fname])]
        h == Opened(r, fname, res)
    IN  IF res.ok
        THEN [r0 EXCEPT !.handles = h, !.file = Len(h),
                       !.ce = r.negenc, !.vary = TRUE,
                       !.clen = IF ~r.range THEN res.size ELSE -1,
                       !.pc = "serve"]
        ELSE [r0 EXCEPT !.handles = h, !.failed = Failed(r, fname, res), !.pc = "openBase"]

\* rank design, one turn of the loop over acceptable(r)
TryCandidate(r, fsys) ==
    LET enc == r.cands[r.idx]
        fname == r.fpath \o enc.extension
        res == openAndStat(fsys, fname)
        r0 == [r EXCEPT !.ops = Append(@, [op |-> "Open", name |-> fname])]
        h == Opened(r, fname, res)
    IN  IF res.ok
        THEN [r0 EXCEPT !.handles = h, !.file = Len(h), !.ce = enc.name, !.pc = "serve"]
        ELSE IF r.idx < Len(r.cands)
             THEN [r0 EXCEPT !.handles = h, !.failed = Failed(r, fname, res),
                             !.idx = r.idx + 1]
             ELSE [r0 EXCEPT !.handles = h, !.failed = Failed(r, fname, res),
                            !.pc = "openBase"]

\* the last openAndStat(fpath) of findBestFile, and ServeHTTP's 404
OpenBase(r, fsys) ==
    LET res == openAndStat(fsys, r.fpath)
        r0 == [r EXCEPT !.ops = Append(@, [op |-> "Open", name |-> r.fpath])]
        h == Opened(r, r.fpath, res)
    IN  IF res.ok
        THEN [r0 EXCEPT !.handles = h, !.file = Len(h), !.pc = "serve"]
        ELSE NotFound([r0 EXCEPT !.handles = h, !.failed = Failed(r, r.fpath, res)])

\* a variant of ServeContentCall that names the content after the file opened
ServeContentCall_SiblingName(r) ==
    [r EXCEPT !.responder = "running", !.servedName = r.handles[r.file].name,
              !.servedFile = r.handles[r.file].name, !.pc = "serving"]

\* http.ServeContent(w, r, fpath, info.ModTime(), file) is entered
ServeContentCall(r) ==
    [r EXCEPT !.responder = "running", !.servedName = r.fpath,
              !.servedFile = r.handles[r.file].name, !.pc = "serving"]

\* http.ServeContent returns
ServeContentReturn(r) == [r EXCEPT !.responder = "returned", !.pc = "close"]

\* http.ServeContent panics (http.ErrAbortHandler, a panicking ResponseWriter
\* or File): ServeHTTP is unwound, the statements after the call do not run
ServeContentPanic(r) == [r EXCEPT !.responder = "panicked", !.pc = "done"]

\* file.Close() and return
FileClose(r) == [r EXCEPT !.handles[r.file].open = FALSE, !.pc = "done"]

----------------------------------------------------------------------------
(* Actions *)

Requests == DOMAIN rq

Step(i, r) ==
    rq' = [rq EXCEPT ![i] = r] /\ UNCHANGED <<design, fs, fsChanges, baseStable, tables>>

\* a variant of TablesAfter in which acceptable sets clientPreference in the
\* entry of the shared array instead of in a copy of it
TablesAfter_WriteThrough(d, r) ==
    IF d # "rank" THEN tables
    ELSE LET c == acceptable(r.ae)
             Pref(known) ==
                 IF \E j \in 1..Len(c) : c[j].name = known.name
                 THEN (CHOOSE e \in {c[j] : j \in 1..Len(c)} : e.name = known.name).clientPreference
                 ELSE known.clientPreference
             se == tables.supportedEncodings
         IN  [tables EXCEPT !.supportedEncodings =
                 [k \in DOMAIN se |-> [se[k] EXCEPT !.clientPreference = Pref(se[k])]]]

\* the shared tables after the request ran up to findBestFile: acceptable
\* sets clientPreference in enc, a copy of the array entry, and sorts its own
\* slice; the probe loop only reads preferredEncodings
TablesAfter(d, r) == tables

DoServeHTTP(i) ==
    /\ rq[i].pc = "start"
    /\ rq' = [rq EXCEPT ![i] = ServeHTTP(design, rq[i])]
    /\ tables' = TablesAfter(design, rq[i])
    /\ UNCHANGED <<design, fs, fsChanges, baseStable>>

DoProbeExists(i) == rq[i].pc = "probe" /\ Step(i, ProbeExists(rq[i], fs))

DoOpenNegotiated(i) == rq[i].pc = "openEnc" /\ Step(i, OpenNegotiated(rq[i], fs))

DoTryCandidate(i) == rq[i].pc = "cand" /\ Step(i, TryCandidate(rq[i], fs))

DoOpenBase(i) == rq[i].pc = "openBase" /\ Step(i, OpenBase(rq[i], fs))

DoServeContentCall(i) == rq[i].pc = "serve" /\ Step(i, ServeContentCall(rq[i]))

DoServeContentReturn(i) == rq[i].pc = "serving" /\ Step(i, ServeContentReturn(rq[i]))

DoServeContentPanic(i) == rq[i].pc = "serving" /\ Step(i, ServeContentPanic(rq[i]))

DoFileClose(i) == rq[i].pc = "close" /\ Step(i, FileClose(rq[i]))

\* the storage changes under the running handler: an entry is deleted,
\* created, replaced by a directory or made unreadable
FsChange ==
    /\ fsChanges < MaxFsChanges
    /\ \E i \in Requests : rq[i].pc # "done"
    /\ \E name \in Files, k \in Kinds :
          /\ fs[name] # k
          /\ fs' = [fs EXCEPT ![name] = k]
          /\ baseStable' = (baseStable /\ name # BaseFile)
    /\ fsChanges' = fsChanges + 1
    /\ UNCHANGED <<design, tables, rq>>

Designs == {"negotiate", "rank"}

\* one request on a handler of either design over any storage; the rank
\* design never reads the Range header
InitWith(paths, headers, ranges, fss) ==
    /\ design \in Designs
    /\ fs \in fss
    /\ fsChanges = 0
    /\ baseStable = (fs[BaseFile] = "file")
    /\ tables = InitialTables
    /\ \E p \in paths, ae \in headers, rg \in ranges :
          /\ (design = "rank" => ~rg)
          /\ rq = [i \in {1} |-> NewRequest(p, ae, rg)]

RequestStep ==
    \/ \E i \in Requests : DoServeHTTP(i)
    \/ \E i \in Requests : DoProbeExists(i)
    \/ \E i \in Requests : DoOpenNegotiated(i)
    \/ \E i \in Requests : DoTryCandidate(i)
    \/ \E i \in Requests : DoOpenBase(i)
    \/ \E i \in Requests : DoServeContentCall(i)
    \/ \E i \in Requests : DoServeContentReturn(i)
    \/ \E i \in Requests : DoServeContentPanic(i)
    \/ \E i \in Requests : DoFileClose(i)

----------------------------------------------------------------------------
(* A whole call of ServeHTTP, alone, on a storage that does not change,    *)
(* with a responder that returns *)

StepAlone(d, fsys, r) ==
    CASE r.pc = "start" -> ServeHTTP(d, r)
      [] r.pc = "probe" -> ProbeExists(r, fsys)
      [] r.pc = "openEnc" -> OpenNegotiated(r, fsys)
      [] r.pc = "cand" -> TryCandidate(r, fsys)
      [] r.pc = "openBase" -> OpenBase(r, fsys)
      [] r.pc = "serve" -> ServeContentCall(r)
      [] r.pc = "serving" -> ServeContentReturn(r)
      [] r.pc = "close" -> FileClose(r)
      [] OTHER -> r

RECURSIVE RunAlone(_, _, _)
RunAlone(d, fsys, r) ==
    IF r.pc = "done" THEN r ELSE RunAlone(d, fsys, StepAlone(d, fsys, r))

\* what the client and the responder see of a finished request: the status
\* and headers the core wrote, whether the responder was called, on which
\* file and under which name
Outcome(r) ==
    [status |-> r.status, invoked |-> r.responder # "none",
     file |-> r.servedFile, name |-> r.servedName,
     ce |-> r.ce, vary |-> r.vary, clen |-> r.clen]

----------------------------------------------------------------------------
(* Specifications *)

AllFs == [Files -> Kinds]

\* the headers of one entry at most, and the header of the tests, "gzip,*"
GzipStar == << [value |-> "gzip", q |-> QSteps], [value |-> "*", q |-> QSteps] >>

ShortHeaders == {h \in Headers : Len(h) <= 1} \cup {GzipStar}

\* Spec: one request for /f, the storage does not change; any header without
\* a Range header, the short headers with one (Range only decides whether
\* Content-Length is set)
Init ==
    \/ InitWith({BaseFile}, Headers, {FALSE}, AllFs)
    \/ InitWith({BaseFile}, ShortHeaders, {TRUE}, AllFs)

Next == RequestStep

Spec == Init /\ [][Next]_vars

\* SpecPath: one request for any path, the storage does not change
InitPath == InitWith(Paths, ShortHeaders, {FALSE}, AllFs)

SpecPath == InitPath /\ [][Next]_vars

\* SpecRace: one request for /f while the storage changes
InitRace == InitWith({BaseFile}, ShortHeaders, BOOLEAN, AllFs)

NextRace == RequestStep \/ FsChange

SpecRace == InitRace /\ [][NextRace]_vars

\* SpecRank: one request for /f on the rank design with any header; the file
\* itself exists, each sibling may or may not
BaseExists == {fsys \in AllFs : fsys[BaseFile] = "file"}

InitRank == InitWith({BaseFile}, Headers, {FALSE}, BaseExists) /\ design = "rank"

NextRank ==
    \/ \E i \in Requests : DoServeHTTP(i)
    \/ \E i \in Requests : DoTryCandidate(i)
    \/ \E i \in Requests : DoOpenBase(i)
    \/ \E i \in Requests : DoServeContentCall(i)
    \/ \E i \in Requests : DoServeContentReturn(i)
    \/ \E i \in Requests : DoServeContentPanic(i)
    \/ \E i \in Requests : DoFileClose(i)

SpecRank == InitRank /\ [][NextRank]_vars

\* SpecConc: NumRequests requests for /f in flight on one handler, their steps
\* interleaved in every order, the storage does not change
ConcHeaders ==
    {<<>>, << [value |-> "gzip", q |-> QSteps] >>, << [value |-> "*", q |-> QSteps] >>}

\* every entry is missing, a regular file or a directory
ConcFs == [Files -> {"missing", "file", "dir"}]

InitConc ==
    /\ design \in Designs
    /\ fs \in ConcFs
    /\ fsChanges = 0
    /\ baseStable = (fs[BaseFile] = "file")
    /\ tables = InitialTables
    /\ rq \in [1..NumRequests -> {NewRequest(BaseFile, ae, FALSE) : ae \in ConcHeaders}]

SpecConc == InitConc /\ [][Next]_vars

----------------------------------------------------------------------------
(* Properties *)

GzSibling(fpath) == fpath \o <<".gz">>

BrSibling(fpath) == fpath \o <<".br">>

GzipOnly == << [value |-> "gzip", q |-> QSteps] >>

\* C1: a request whose URL path ends in "/" is answered 404 and the content
\* responder is never called, whatever files exist under the root.
C1_TrailingSlashIs404 ==
    \A i \in Requests :
        HasSuffixSlash(rq[i].urlPath) =>
            /\ rq[i].responder = "none"
            /\ (rq[i].pc = "done" => rq[i].status = 404)

\* C2: in the negotiate design the response carries Content-Encoding and
\* Vary only when the file handed to the responder is a .br or .gz sibling;
\* when the base file is served no Content-Encoding is set.
C2_ContentEncodingOnlyForSibling ==
    \A i \in Requests :
        (design = "negotiate" /\ rq[i].responder # "none") =>
            ((rq[i].ce # "" \/ rq[i].vary) =>
                rq[i].servedFile \in {GzSibling(rq[i].fpath), BrSibling(rq[i].fpath)})

\* C3: when neither sibling of the requested path exists, the request gives
\* the same outcome (status, file served, headers set by the core) as the
\* same request sent without Accept-Encoding.
C3_SameWithoutAcceptEncoding ==
    \A i \in Requests :
        (/\ rq[i].pc = "done"
         /\ ~Exists(fs, GzSibling(rq[i].fpath))
         /\ ~Exists(fs, BrSibling(rq[i].fpath))) =>
            Outcome(rq[i]) =
                Outcome(RunAlone(design, fs, NewRequest(rq[i].urlPath, <<>>, rq[i].range)))

\* C4: when the .gz sibling of the requested path is a regular file and the
\* client sends "Accept-Encoding: gzip", the responder is called with the
\* handle of the .gz sibling under the name of the (cleaned) requested path,
\* and Content-Encoding is exactly gzip.
C4_GzipSiblingServed ==
    \A i \in Requests :
        (/\ rq[i].pc = "done"
         /\ rq[i].ae = GzipOnly
         /\ KindOf(fs, GzSibling(rq[i].fpath)) = "file") =>
            /\ rq[i].responder # "none"
            /\ rq[i].status = 0
            /\ rq[i].servedFile = GzSibling(rq[i].fpath)
            /\ rq[i].handles[rq[i].file].name = GzSibling(rq[i].fpath)
            /\ rq[i].servedName = rq[i].fpath
            /\ (HasPrefixSlash(rq[i].urlPath) /\ Clean(rq[i].urlPath) = rq[i].urlPath
                    => rq[i].servedName = rq[i].urlPath)
            /\ rq[i].ce = "gzip"

C4_Witness ==
    \E i \in Requests :
        /\ rq[i].pc = "done"
        /\ rq[i].ae = GzipOnly
        /\ rq[i].urlPath = BaseFile
        /\ fs[BaseFile] = "file"
        /\ rq[i].servedFile = GzSibling(BaseFile)
        /\ rq[i].responder = "returned"

\* the weight of the first entry of the header that names value, -1 if none
RECURSIVE FirstQ(_, _, _)
FirstQ(ae, value, i) ==
    IF i > Len(ae) THEN -1
    ELSE IF ae[i].value = value THEN ae[i].q
    ELSE FirstQ(ae, value, i + 1)

\* the weight the client gives an encoding, as each design reads the header:
\* the entry naming it (the first one in the rank design), else the
\* wildcard's, else 0
ClientWeight(d, ae, enc) ==
    IF d = "rank"
    THEN IF FirstQ(ae, enc, 1) # -1 THEN FirstQ(ae, enc, 1)
         ELSE IF FirstQ(ae, "*", 1) # -1 THEN FirstQ(ae, "*", 1) ELSE 0
    ELSE IF qvalue(ae, enc) # -1 THEN qvalue(ae, enc) ELSE 0

CandidateNames(r) == {r.cands[k].name : k \in 1..Len(r.cands)}

BothSiblings(r) ==
    /\ KindOf(fs, GzSibling(r.fpath)) = "file"
    /\ KindOf(fs, BrSibling(r.fpath)) = "file"

\* the request ended with the encoding enc selected: ranked first or
\* negotiated, its sibling handed to the responder, Content-Encoding enc
SelectedIs(r, enc) ==
    /\ (design = "rank" => r.cands # <<>> /\ r.cands[1].name = enc)
    /\ (design = "negotiate" => r.negenc = enc)
    /\ r.ce = enc
    /\ r.servedFile = r.fpath \o extensionForEncoding(enc)

\* the negotiate design offers identity, and the client weights it above enc
IdentityPreferred(r, enc) ==
    /\ design = "negotiate"
    /\ Exists(fs, r.fpath)
    /\ ClientWeight(design, r.ae, "identity") > ClientWeight(design, r.ae, enc)

\* C5 as stated: with both siblings present, br is selected when the client
\* gives br and gzip equal (non-zero) weight, gzip when it weights gzip
\* above br.
C5_Original ==
    \A i \in Requests :
        (rq[i].pc = "done" /\ rq[i].ae # <<>> /\ BothSiblings(rq[i])) =>
            LET wbr == ClientWeight(design, rq[i].ae, "br")
                wgz == ClientWeight(design, rq[i].ae, "gzip")
            IN  /\ (wbr = wgz /\ wbr > 0 => SelectedIs(rq[i], "br"))
                /\ (wgz > wbr => SelectedIs(rq[i], "gzip"))

\* C5, amended: with both siblings present, br is selected when the client
\* gives br and gzip equal non-zero weight, gzip when it weights gzip above
\* br, unless the negotiate design has the base file to offer and the
\* client weights identity above the winner.
C5_PreferenceOrder ==
    \A i \in Requests :
        (rq[i].pc = "done" /\ rq[i].ae # <<>> /\ BothSiblings(rq[i])) =>
            LET wbr == ClientWeight(design, rq[i].ae, "br")
                wgz == ClientWeight(design, rq[i].ae, "gzip")
            IN  /\ (wbr = wgz /\ wbr > 0 /\ ~IdentityPreferred(rq[i], "br")
                        => SelectedIs(rq[i], "br"))
                /\ (wgz > wbr /\ ~IdentityPreferred(rq[i], "gzip")
                        => SelectedIs(rq[i], "gzip"))

C5_Witness ==
    \E i \in Requests :
        /\ rq[i].pc = "done"
        /\ BothSiblings(rq[i])
        /\ design = "rank"
        /\ FirstQ(rq[i].ae, "gzip", 1) = QSteps
        /\ FirstQ(rq[i].ae, "br", 1) = QSteps
        /\ SelectedIs(rq[i], "br")

GzipListedWithZero(ae) == \E k \in 1..Len(ae) : ae[k] = [value |-> "gzip", q |-> 0]

\* C6 as stated: when the header lists gzip with q=0, gzip is not in the
\* candidate list and the .gz sibling is not served, wildcard or not.
C6_Original ==
    \A i \in Requests :
        (design = "rank" /\ rq[i].pc # "start" /\ GzipListedWithZero(rq[i].ae)) =>
            /\ "gzip" \notin CandidateNames(rq[i])
            /\ rq[i].servedFile # GzSibling(rq[i].fpath)

\* C6, amended: when the first entry of the header that names gzip has q=0,
\* gzip is not in the candidate list of acceptable and the rank design does
\* not serve the .gz sibling, wildcard or not.
C6_GzipExcluded ==
    \A i \in Requests :
        (design = "rank" /\ rq[i].pc # "start" /\ FirstQ(rq[i].ae, "gzip", 1) = 0) =>
            /\ "gzip" \notin CandidateNames(rq[i])
            /\ rq[i].servedFile # GzSibling(rq[i].fpath)
            /\ rq[i].ce # "gzip"

C6_Witness ==
    \E i \in Requests :
        /\ design = "rank"
        /\ rq[i].pc = "done"
        /\ rq[i].ae = << [value |-> "gzip", q |-> 0], [value |-> "*", q |-> QSteps] >>
        /\ fs[GzSibling(BaseFile)] = "file"
        /\ fs[BrSibling(BaseFile)] = "missing"
        /\ rq[i].servedFile = BaseFile

\* C7: a request whose path does not begin with "/" gives the same outcome
\* (status, file served, headers set by the core, name passed to the
\* responder) as the request for "/" followed by that path.
C7_LeadingSlashAdded ==
    \A i \in Requests :
        (rq[i].pc = "done" /\ ~HasPrefixSlash(rq[i].urlPath)) =>
            Outcome(rq[i]) =
                Outcome(RunAlone(design, fs,
                                 NewRequest(<<"/">> \o rq[i].urlPath, rq[i].ae, rq[i].range)))

C7_Witness ==
    \E i \in Requests :
        /\ rq[i].pc = "done"
        /\ rq[i].urlPath = <<"f">>
        /\ rq[i].responder = "returned"
        /\ rq[i].servedName = BaseFile
        /\ rq[i].servedFile = GzSibling(BaseFile)

\* the encoded siblings the handler may try to open for a header
CandidateEncodings(d, ae) ==
    IF d = "rank"
    THEN {acceptable(ae)[k].name : k \in 1..Len(acceptable(ae))}
    ELSE {e \in {"gzip", "br"} : qvalue(ae, e) > 0}

NoVariantOpens(r) ==
    /\ KindOf(fs, r.fpath) # "file"
    /\ \A e \in CandidateEncodings(design, r.ae) :
          KindOf(fs, r.fpath \o extensionForEncoding(e)) # "file"

ProbeNames == Files \cup {<<"/">>, <<"/", "updog">>}

\* C8: when neither the base path nor any acceptable sibling can be opened
\* as a regular file (missing, directory or unreadable alike), the answer is
\* 404 with no header set by the core and the responder is not called; the
\* core writes no status but 404; openAndStat fails for a directory and for
\* a name that does not exist.
C8_NothingOpensIs404 ==
    /\ \A i \in Requests :
          /\ rq[i].status \in {0, 404}
          /\ (rq[i].pc = "done" /\ NoVariantOpens(rq[i])) =>
                /\ rq[i].status = 404
                /\ rq[i].responder = "none"
                /\ rq[i].ce = "" /\ ~rq[i].vary /\ rq[i].clen = -1
    /\ \A n \in ProbeNames :
          KindOf(fs, n) \in {"dir", "missing"} => ~openAndStat(fs, n).ok

C8_Witness ==
    \E i \in Requests :
        /\ rq[i].pc = "done"
        /\ rq[i].status = 404
        /\ fs[BaseFile] = "dir"
        /\ fs[GzSibling(BaseFile)] = "unreadable"
        /\ rq[i].negenc = "gzip"
        /\ GzSibling(BaseFile) \in rq[i].failed

\* C9: the handle handed to the responder is open while the responder runs
\* and is closed when ServeHTTP is over, however the responder ended.
C9_ClosedOnEveryExit ==
    \A i \in Requests :
        /\ (rq[i].responder = "running" => rq[i].handles[rq[i].file].open)
        /\ (rq[i].pc = "done" /\ rq[i].responder # "none"
                => ~rq[i].handles[rq[i].file].open)

Siblings(fpath) == {GzSibling(fpath), BrSibling(fpath)}

EncodingOf(name) == IF Last(name) = ".gz" THEN "gzip" ELSE "br"

\* C10: while the storage changes under the request, if the base file stays
\* a regular file the request ends with the responder called, on a sibling
\* that opened (with its Content-Encoding) or on the base file, never 404;
\* and in the negotiate design, when the negotiated sibling failed to open,
\* the base file is served with no Content-Encoding, Vary or Content-Length
\* set by the core.
C10_RaceFallsBack ==
    \A i \in Requests :
        (rq[i].pc = "done" /\ baseStable) =>
            /\ rq[i].status = 0
            /\ rq[i].responder # "none"
            /\ rq[i].servedFile \in {BaseFile} \cup Siblings(BaseFile)
            /\ (rq[i].servedFile \in Siblings(BaseFile) =>
                    /\ rq[i].ce = EncodingOf(rq[i].servedFile)
                    /\ rq[i].servedFile \notin rq[i].failed)
            /\ (design = "negotiate" /\ rq[i].failed \cap Siblings(BaseFile) # {} =>
                    /\ rq[i].servedFile = BaseFile
                    /\ rq[i].ce = "" /\ ~rq[i].vary /\ rq[i].clen = -1)

C10_Witness ==
    \E i \in Requests :
        /\ rq[i].pc = "done"
        /\ baseStable
        /\ fsChanges > 0
        /\ design = "negotiate"
        /\ "gzip" \in {rq[i].available[k] : k \in 1..Len(rq[i].available)}
        /\ GzSibling(BaseFile) \in rq[i].failed
        /\ rq[i].servedFile = BaseFile
        /\ rq[i].responder = "returned"

\* C11: in the negotiate design the core sets Content-Length exactly when a
\* precompressed sibling is served and the request has no Range header, and
\* its value is the size of the file handed to the responder.
C11_ContentLengthOnlyForSibling ==
    \A i \in Requests :
        (design = "negotiate" /\ rq[i].responder # "none") =>
            /\ (rq[i].clen # -1) <=>
                  (rq[i].servedFile \in Siblings(rq[i].fpath) /\ ~rq[i].range)
            /\ (rq[i].clen # -1 => rq[i].clen = SizeOf(rq[i].servedFile))

\* the request was handed to findBestFile
EnteredFindBestFile(r) == r.pc # "start" /\ ~HasSuffixSlash(r.fpath)

\* findBestFile has returned
FindBestFileReturned(r) == r.pc \in {"serve", "serving", "close", "done"}

\* the probes of a request with an Accept-Encoding header: br, gzip, identity
ProbeSequence(fpath) ==
    << [op |-> "Exists", name |-> fpath \o <<".br">>],
       [op |-> "Exists", name |-> fpath \o <<".gz">>],
       [op |-> "Exists", name |-> fpath] >>

\* C12: in the negotiate design a request without Accept-Encoding makes no
\* Exists probe and exactly one Open, of the base path; a request with the
\* header probes br, gzip, identity once each in that order before any Open,
\* and makes at most two Opens.
C12_ProbesThenOpens ==
    \A i \in Requests :
        LET r == rq[i] IN
        (design = "negotiate" /\ EnteredFindBestFile(r)) =>
            IF r.ae = <<>>
            THEN /\ Len(r.ops) <= 1
                 /\ \A k \in 1..Len(r.ops) : r.ops[k] = [op |-> "Open", name |-> r.fpath]
                 /\ FindBestFileReturned(r) => Len(r.ops) = 1
            ELSE /\ Len(r.ops) <= 5
                 /\ \A k \in 1..Len(r.ops) :
                        IF k <= 3 THEN r.ops[k] = ProbeSequence(r.fpath)[k]
                                  ELSE r.ops[k].op = "Open"
                 /\ FindBestFileReturned(r) => Len(r.ops) >= 3

\* reached: a request with the header probed three times and opened twice
C12_Witness ==
    \E i \in Requests :
        /\ design = "negotiate" /\ rq[i].ae # <<>> /\ rq[i].pc = "done"
        /\ Len(rq[i].ops) = 5
        /\ rq[i].ops[4].name # rq[i].fpath /\ rq[i].ops[5].name = rq[i].fpath

\* the weight the header gives an encoding in the rank design: that of the
\* first entry naming it, else that of the first wildcard, else 0
EffectiveWeight(ae, enc) == ClientWeight("rank", ae, enc)

\* the candidate list is ordered by descending weight, ties by descending
\* server priority
RankedDescending(c) ==
    \A k \in 1..(Len(c) - 1) :
        \/ c[k].clientPreference > c[k + 1].clientPreference
        \/ /\ c[k].clientPreference = c[k + 1].clientPreference
           /\ c[k].serverPreference > c[k + 1].serverPreference

\* C13: the list acceptable returns holds exactly the supported encodings of
\* effective weight greater than 0, ordered by descending weight and then by
\* descending server priority; an encoding reached only through "*;q=0" is
\* not in it.
C13_ExactlyPositiveWeights ==
    \A i \in Requests :
        (design = "rank" /\ rq[i].pc # "start") =>
            /\ CandidateNames(rq[i]) =
                  {e \in {"gzip", "br"} : EffectiveWeight(rq[i].ae, e) > 0}
            /\ RankedDescending(rq[i].cands)

\* the tokens the header names
Mentioned(ae) == {ae[k].value : k \in 1..Len(ae)}

\* some token occurs twice in the header, with different weights
HasDuplicate(ae) ==
    \E j, k \in 1..Len(ae) : j < k /\ ae[j].value = ae[k].value /\ ae[j].q # ae[k].q

\* C14: in acceptable only the first occurrence of a token counts: an encoding
\* named in the header is a candidate exactly if its first weight is not 0,
\* and then with that weight; an encoding not named carries the weight of the
\* first wildcard and is no candidate without a wildcard; no encoding is in
\* the list twice.
C14_FirstOccurrenceWins ==
    \A i \in Requests :
        LET r == rq[i]
            c == rq[i].cands
        IN  (design = "rank" /\ r.pc # "start") =>
            /\ \A j, k \in 1..Len(c) : c[j].name = c[k].name => j = k
            /\ \A k \in 1..Len(c) :
                  IF c[k].name \in Mentioned(r.ae)
                  THEN c[k].clientPreference = FirstQ(r.ae, c[k].name, 1)
                  ELSE /\ "*" \in Mentioned(r.ae)
                       /\ c[k].clientPreference = FirstQ(r.ae, "*", 1)
            /\ \A e \in {"gzip", "br"} :
                  /\ e \in Mentioned(r.ae) =>
                        (e \in CandidateNames(r) <=> FirstQ(r.ae, e, 1) # 0)
                  /\ (e \notin Mentioned(r.ae) /\ FirstQ(r.ae, "*", 1) > 0) =>
                        e \in CandidateNames(r)

\* reached: 'gzip;q=0, gzip' leaves gzip out of the candidates
C14_Witness ==
    \E i \in Requests :
        /\ design = "rank" /\ rq[i].pc # "start"
        /\ HasDuplicate(rq[i].ae)
        /\ rq[i].ae[1] = [value |-> "gzip", q |-> 0]
        /\ rq[i].ae[2].value = "gzip"
        /\ "gzip" \notin CandidateNames(rq[i])

\* C15: Exists is true only of a regular readable file, and false of a
\* missing name, a directory and an unreadable entry; so the availability
\* list of findBestFile names an encoding only if its sibling is a regular
\* file.
C15_ExistsOnlyRegularFiles ==
    /\ \A name \in Files : Exists(fs, name) <=> KindOf(fs, name) = "file"
    /\ \A i \in Requests :
          design = "negotiate" =>
              \A k \in 1..Len(rq[i].available) :
                  KindOf(fs, rq[i].fpath \o extensionForEncoding(rq[i].available[k])) = "file"

\* C17: when ServeHTTP has returned, every handle the request opened is
\* closed, the handle of an entry openAndStat rejected included.
C17_NoHandleLeftOpen ==
    \A i \in Requests :
        (rq[i].pc = "done" /\ rq[i].responder # "panicked") =>
            \A k \in 1..Len(rq[i].handles) : ~rq[i].handles[k].open

\* C16: requests handled at the same time do not interfere: the shared
\* tables never change (clientPreference stays 0 in supportedEncodings,
\* preferredEncodings keeps its order), and on an unchanged storage every
\* finished request has the outcome it has when run alone.
C16_NoInterference ==
    /\ \A k \in 1..Len(supportedEncodings) : supportedEncodings[k].clientPreference = 0
    /\ tables = InitialTables
    /\ preferredEncodings = <<"br", "gzip", "identity">>
    /\ \A i \in Requests :
          rq[i].pc = "done" =>
              Outcome(rq[i]) =
                  Outcome(RunAlone(design, fs,
                                   NewRequest(rq[i].urlPath, rq[i].ae, rq[i].range)))

\* reached: two requests with different headers were both inside the
\* responder, on different files, and the first has finished
C16_Witness ==
    \E i, j \in Requests :
        /\ i # j
        /\ rq[i].ae # rq[j].ae
        /\ rq[i].pc = "done" /\ rq[i].responder = "returned"
        /\ rq[j].pc = "serving"
        /\ rq[i].servedFile # rq[j].servedFile
        /\ Len(rq[j].ops) < Len(rq[i].ops)

====
